---- MODULE Spec2Model ----
(***************************************************************************)
(* Model of src/index.js: an Express gallery backend with a MongoDB store  *)
(* and an in-memory fallback, a JWT auth gate and Cloudinary as the remote *)
(* media store.  A handler is split at the awaits across which another     *)
(* handler can change what it goes on to use: the upload at the remote     *)
(* upload, the delete at the remote destroy and at the removal of the      *)
(* record.  Login reads the store once and writes nothing shared, and the  *)
(* list and update handlers act on the store in one turn of the event      *)
(* loop, so each of them is one step.                                      *)
(***************************************************************************)
EXTENDS Integers, Sequences, FiniteSets, Bags, TLC

\* ---------------------------------------------------------------- bounds
MaxReq == 2          \* requests in flight at the same time
MaxImages == 2       \* uploads that reach the remote media store
MaxTicks == 1        \* times the wall clock is observed to advance
MaxRestarts == 2     \* process restarts against the same database
MaxIssued == 1       \* login tokens the clients keep at the same time

\* ------------------------------------------------------------- constants
undefined == "<undefined>"        \* the JS value undefined (not a client string)
AdminEmail == "admin@gmail.com"
UserEmail == "user@gmail.com"
AdminPassword == "admin123"
UserPassword == "password123"
FallbackSecret == "your_jwt_secret"
ExpiresInSec == 86400             \* expiresIn: '24h', in seconds
MissingId == "oid0"               \* a well-formed id that names no record

VARIABLES
  jwtSecret,       \* process.env.JWT_SECRET
  connection,      \* state of the mongoose.connect promise
  mongoConnected,  \* let mongoConnected
  users,           \* let users (in-memory credential store)
  images,          \* let images (in-memory image store)
  dbUsers,         \* the User collection
  dbImages,        \* the Image collection
  nextOid,         \* ObjectIds handed out so far
  remote,          \* public ids of the objects held by Cloudinary
  nextPublicId,    \* public ids handed out so far
  clock,           \* Date.now(), in milliseconds
  ticks,           \* clock advances so far
  seed,            \* the two runs of initializeUsers
  memSeed,         \* the run of initializeInMemoryUsers
  req,             \* request handlers suspended at an await
  last,            \* the request answered by the latest step, with its response
  served,          \* the store backends that handlers of this process branched to
  issued,          \* tokens handed to clients by login
  restarts

vars == <<jwtSecret, connection, mongoConnected, users, images, dbUsers,
          dbImages, nextOid, remote, nextPublicId, clock, ticks, seed,
          memSeed, req, last, served, issued, restarts>>

SeedRuns == {"then", "open"}

\* ------------------------------------------------------------ primitives
Truthy(v) == v /= undefined /\ v /= ""

\* bcrypt.hash(plain, 10): a salted hash, matched only by its plaintext
BcryptHash(plain) == [bcrypt |-> plain]
\* bcrypt.compare(s, hash): throws on a non-string s
BcryptCompareThrows(s) == s = undefined
BcryptCompare(s, hash) == hash.bcrypt = s

NoUser == [email |-> undefined]
Found(u) == u.email /= undefined

\* userSchema: email unique
UniqueEmailFree(email) == \A u \in dbUsers : u.email /= email

\* ------------------------------------------------------------- auth gate
NoToken == [fmt |-> "none"]         \* no Authorization header, or no second word
Garbage == [fmt |-> "garbage"]      \* a bearer string that is not a JWT

\* jwt.sign(payload, secret, { expiresIn: '24h' }): throws without a secret
JwtSignThrows(secret) == ~Truthy(secret)
JwtSign(payload, secret, now) ==
  [fmt |-> "jwt", payload |-> payload, key |-> secret,
   exp |-> (now \div 1000) + ExpiresInSec]

\* jwt.verify(token, secret, cb): err is null
JwtVerify(token, secret, now) ==
  /\ token.fmt = "jwt"
  /\ token.key = secret
  /\ (now \div 1000) < token.exp

\* process.env.JWT_SECRET || 'your_jwt_secret'
VerifySecret == IF Truthy(jwtSecret) THEN jwtSecret ELSE FallbackSecret

Resp(status, message) ==
  [status |-> status, message |-> message, body |-> <<>>, token |-> NoToken]
NoResp == Resp(0, "")
Next0 == NoResp                      \* the middleware called next()

authenticateToken(token) ==
  IF token.fmt = "none" THEN Resp(401, "Access denied")
  ELSE IF ~JwtVerify(token, VerifySecret, clock) THEN Resp(403, "Invalid token")
  ELSE Next0

\* isAdmin without its check
isAdminSkipped(token) == Next0

isAdmin(token) ==
  IF ~token.payload.isAdmin THEN Resp(403, "Admin access required") ELSE Next0

\* authenticateToken, isAdmin in front of a handler
Gate(token) ==
  IF authenticateToken(token) /= Next0 THEN authenticateToken(token)
  ELSE isAdmin(token)

\* tokens a client can put in the header: none, junk, a JWT signed with a key
\* of its own, a login token that went stale (its exp in the past), or one
\* that login handed out
AdminPayload == [userId |-> "1", email |-> AdminEmail, isAdmin |-> TRUE]
WrongKey == JwtSign(AdminPayload, "not_the_secret", clock)
Stale == [JwtSign(AdminPayload, VerifySecret, clock) EXCEPT
            !.exp = (clock \div 1000) - 1]
Presentable == {NoToken, Garbage, WrongKey, Stale} \cup issued

\* ---------------------------------------------------------- request state
\* what a handler has read of its request and keeps in its locals: req.headers,
\* req.body, req.params, req.file, user, imageIndex, image.cloudinaryId, and the
\* branch it took on mongoConnected
NoReq == [pc |-> "none", kind |-> "", token |-> NoToken, email |-> undefined,
          password |-> undefined, title |-> undefined, id |-> undefined,
          file |-> undefined, user |-> NoUser, imageIndex |-> 0,
          cloudinaryId |-> undefined, backend |-> ""]
NoLast == [rq |-> NoReq, rs |-> NoResp]

\* the event loop is between two callbacks: the response of the last one,
\* if it gave one, has been written
Turn == last = NoLast
Answer(rq, rs) == [rq |-> rq, rs |-> rs]

Backend == IF mongoConnected THEN "mongo" ELSE "memory"

Emails == {AdminEmail, UserEmail, "nobody@gmail.com"}
Passwords == {undefined, AdminPassword, UserPassword}
Titles == {undefined, "", "Sunset"}
Files == {undefined, "sunset.png"}
\* the ids a client has seen in a listing, and one that names no record
Ids == (IF mongoConnected THEN {d._id : d \in dbImages}
        ELSE {images[i]._id : i \in 1..Len(images)}) \cup {MissingId}

\* ------------------------------------------------------- startup, seeding
SeedIdle == [s \in SeedRuns |-> "idle"]

\* initializeUsers up to its first await: the findOne query is on its way
CallInitializeUsers(s, sd) == [sd EXCEPT ![s] = "findOne"]

\* mongoose.connection.once('open', ...)
ConnectionOpen ==
  /\ Turn
  /\ connection = "connecting"
  /\ connection' = "open"
  /\ seed' = CallInitializeUsers("open", seed)
  /\ last' = NoLast
  /\ UNCHANGED <<jwtSecret, mongoConnected, users, images, dbUsers, dbImages,
                 nextOid, remote, nextPublicId, clock, ticks, memSeed, req,
                 served, issued, restarts>>

\* mongoose.connect(...).then(...)
ConnectThen ==
  /\ Turn
  /\ connection = "open"
  /\ connection' = "connected"
  /\ mongoConnected' = TRUE
  /\ seed' = CallInitializeUsers("then", seed)
  /\ last' = NoLast
  /\ UNCHANGED <<jwtSecret, users, images, dbUsers, dbImages, nextOid, remote,
                 nextPublicId, clock, ticks, memSeed, req, served, issued, restarts>>

\* mongoose.connect(...).catch(...)
ConnectCatch ==
  /\ Turn
  /\ connection = "connecting"
  /\ connection' = "failed"
  /\ memSeed' = "hashing"
  /\ last' = NoLast
  /\ UNCHANGED <<jwtSecret, mongoConnected, users, images, dbUsers, dbImages,
                 nextOid, remote, nextPublicId, clock, ticks, seed, req, served, issued, restarts>>

\* initializeUsers: await User.findOne({ email: 'admin@gmail.com' })
SeedFindOne(s) ==
  /\ Turn
  /\ seed[s] = "findOne"
  /\ LET adminExists == \E u \in dbUsers : u.email = AdminEmail
     IN  seed' = [seed EXCEPT ![s] = IF adminExists THEN "done" ELSE "create"]
  /\ last' = NoLast
  /\ UNCHANGED <<jwtSecret, connection, mongoConnected, users, images, dbUsers,
                 dbImages, nextOid, remote, nextPublicId, clock, ticks,
                 memSeed, req, served, issued, restarts>>

\* User.create(doc) on a collection without the unique index
UserCreateUnindexed(doc) == dbUsers \cup {doc}

\* User.create(doc): the unique index on email rejects a second admin
UserCreate(doc) ==
  IF UniqueEmailFree(doc.email) THEN dbUsers \cup {doc} ELSE dbUsers

\* initializeUsers: await bcrypt.hash, await User.create, catch
SeedCreate(s) ==
  /\ Turn
  /\ seed[s] = "create"
  /\ seed' = [seed EXCEPT ![s] = "done"]
  /\ dbUsers' = UserCreate([_id |-> "oid" \o ToString(nextOid),
                            email |-> AdminEmail,
                            password |-> BcryptHash(AdminPassword),
                            isAdmin |-> TRUE])
  /\ nextOid' = IF dbUsers' /= dbUsers THEN nextOid + 1 ELSE nextOid
  /\ last' = NoLast
  /\ UNCHANGED <<jwtSecret, connection, mongoConnected, users, images,
                 dbImages, remote, nextPublicId, clock, ticks, memSeed, req,
                 served, issued, restarts>>

\* initializeInMemoryUsers, after its two awaits (the ids 1 and 2 are kept as
\* their decimal strings, like every other id of the model)
InitializeInMemoryUsers ==
  /\ Turn
  /\ memSeed = "hashing"
  /\ memSeed' = "done"
  /\ users' = << [id |-> "1", email |-> AdminEmail,
                  password |-> BcryptHash(AdminPassword), isAdmin |-> TRUE],
                 [id |-> "2", email |-> UserEmail,
                  password |-> BcryptHash(UserPassword), isAdmin |-> FALSE] >>
  /\ last' = NoLast
  /\ UNCHANGED <<jwtSecret, connection, mongoConnected, images, dbUsers,
                 dbImages, nextOid, remote, nextPublicId, clock, ticks, seed,
                 req, served, issued, restarts>>

\* -------------------------------------------------------------------- Init
Init ==
  /\ jwtSecret \in {undefined, "s3cret"}
  /\ connection = "connecting"
  /\ mongoConnected = FALSE
  /\ users = <<>>
  /\ images = <<>>
  /\ dbUsers = {}
  /\ dbImages = {}
  /\ nextOid = 1
  /\ remote = {}
  /\ nextPublicId = 1
  /\ clock = 0
  /\ ticks = 0
  /\ seed = SeedIdle
  /\ memSeed = "idle"
  /\ req = EmptyBag
  /\ last = NoLast
  /\ served = {}
  /\ issued = {}
  /\ restarts = 0

\* --------------------------------------------------------------- helpers
startupVars == <<connection, mongoConnected, users, seed, memSeed>>
envVars == <<jwtSecret, restarts>>
Serve == served' = served \cup {Backend}
timeVars == <<clock, ticks>>

Field(rec, f) == IF f \in DOMAIN rec THEN rec[f] ELSE undefined

\* users.find(u => u.email === email) / await User.findOne({ email })
FindUser(email) ==
  IF mongoConnected
  THEN IF \E u \in dbUsers : u.email = email
       THEN {u \in dbUsers : u.email = email} ELSE {NoUser}
  ELSE IF \E i \in 1..Len(users) : users[i].email = email
       THEN {users[CHOOSE i \in 1..Len(users) :
                     /\ users[i].email = email
                     /\ \A j \in 1..(i - 1) : users[j].email /= email]}
       ELSE {NoUser}

\* images.findIndex(img => img._id === id), 1-based; 0 stands for -1
FindIndex(s, id) ==
  IF \E i \in 1..Len(s) : s[i]._id = id
  THEN CHOOSE i \in 1..Len(s) :
         s[i]._id = id /\ \A j \in 1..(i - 1) : s[j]._id /= id
  ELSE 0

\* images.splice(imageIndex, 1), 1-based
Splice(s, i) ==
  IF i \in 1..Len(s) THEN SubSeq(s, 1, i - 1) \o SubSeq(s, i + 1, Len(s)) ELSE s

\* the comparator with a and b swapped
CompareOldestFirst(a, b) == a.createdAt - b.createdAt

\* (a, b) => new Date(b.createdAt) - new Date(a.createdAt)
CompareCreatedAt(a, b) == b.createdAt - a.createdAt

RECURSIVE InsertSorted(_, _)
InsertSorted(x, s) ==
  IF s = <<>> THEN <<x>>
  ELSE IF CompareCreatedAt(x, Head(s)) < 0 THEN <<x>> \o s
  ELSE <<Head(s)>> \o InsertSorted(x, Tail(s))

\* Array.prototype.sort with the comparator above: stable, in place
RECURSIVE SortImages(_)
SortImages(s) ==
  IF s = <<>> THEN <<>>
  ELSE InsertSorted(s[Len(s)], SortImages(SubSeq(s, 1, Len(s) - 1)))

\* Image.find().sort({ createdAt: -1 }): every order of the collection that
\* is descending in createdAt (MongoDB leaves the order of ties open)
MongoSorted(docs) ==
  {q \in [1..Cardinality(docs) -> docs] :
     /\ \A i, j \in DOMAIN q : i /= j => q[i] /= q[j]
     /\ \A i, j \in DOMAIN q : i < j => q[i].createdAt >= q[j].createdAt}

\* handlers suspended at an await
Suspended == BagToSet(req)
Suspend(h) == req (+) SetToBag({h})
Resume(h) == req (-) SetToBag({h})
InFlight(kind) ==
  LET hs == {h \in Suspended : h.kind = kind}
      RECURSIVE Sum(_)
      Sum(S) == IF S = {} THEN 0
                ELSE LET h == CHOOSE x \in S : TRUE
                     IN  CopiesIn(h, req) + Sum(S \ {h})
  IN  Sum(hs)

\* the client keeps the token of a login, dropping an older one for it
Keep(token) ==
  IF token \in issued \/ Cardinality(issued) < MaxIssued
  THEN {issued \cup {token}}
  ELSE {(issued \ {old}) \cup {token} : old \in issued}

\* -------------------------------------------------------------- POST /api/login
\* The whole handler.  Its awaits (User.findOne, bcrypt.compare) leave it no
\* state of its own to be overtaken on: mongoConnected is read again for
\* userId, and is true at both reads or false at both, because a user is only
\* found in the in-memory store once the connection has failed.
Login(email, password) ==
  /\ Turn
  /\ LET rq == [NoReq EXCEPT !.pc = "done", !.kind = "login", !.email = email,
                             !.password = password, !.backend = Backend]
     IN  \E user \in FindUser(email) :
           LET payload == [userId |-> IF mongoConnected THEN Field(user, "_id")
                                      ELSE Field(user, "id"),
                           email |-> user.email, isAdmin |-> user.isAdmin]
               token == JwtSign(payload, jwtSecret, clock)
               rs == IF ~Found(user) THEN Resp(401, "Invalid credentials")
                     ELSE IF BcryptCompareThrows(password)
                          THEN Resp(500, "Server error")
                     ELSE IF ~BcryptCompare(password, user.password)
                          THEN Resp(401, "Invalid credentials")
                     ELSE IF JwtSignThrows(jwtSecret)
                          THEN Resp(500, "Server error")
                     ELSE [Resp(200, "") EXCEPT !.token = token]
           IN  /\ last' = Answer([rq EXCEPT !.user = user], rs)
               /\ issued' \in IF rs.status = 200 THEN Keep(token) ELSE {issued}
  /\ Serve
  /\ UNCHANGED <<startupVars, envVars, timeVars, images, dbUsers, dbImages,
                 nextOid, remote, nextPublicId, req>>

\* ------------------------------------------------------------- GET /api/images
ListImages ==
  /\ Turn
  /\ LET rq == [NoReq EXCEPT !.pc = "done", !.kind = "list", !.backend = Backend]
     IN  IF mongoConnected
         THEN /\ \E body \in MongoSorted(dbImages) :
                   last' = Answer(rq, [Resp(200, "") EXCEPT !.body = body])
              /\ images' = images
         ELSE /\ images' = SortImages(images)
              /\ last' = Answer(rq, [Resp(200, "") EXCEPT !.body = images'])
  /\ Serve
  /\ UNCHANGED <<startupVars, envVars, timeVars, dbUsers, dbImages, nextOid,
                 remote, nextPublicId, req, issued>>

\* ------------------------------------------------------ the admin-only routes
AdminRoutes == {"upload", "update", "delete"}

\* app.post('/api/images/upload', authenticateToken, isAdmin, ...), app.put and
\* app.delete alike: a middleware answers, the handler is not called and the
\* body is not read
Reject(kind, token) ==
  /\ Turn
  /\ Gate(token) /= Next0
  /\ last' = Answer([NoReq EXCEPT !.pc = "done", !.kind = kind, !.token = token],
                    Gate(token))
  /\ UNCHANGED <<startupVars, envVars, timeVars, images, dbUsers, dbImages,
                 nextOid, remote, nextPublicId, req, served, issued>>

\* the tokens of the header that both middlewares pass on
Passing == {t \in Presentable : Gate(t) = Next0}

\* ------------------------------------------------------ POST /api/images/upload
\* authenticateToken, isAdmin, upload.single, and the handler up to
\* await cloudinary.uploader.upload
UploadStart(token, title, file) ==
  /\ Turn
  /\ Gate(token) = Next0
  /\ LET rq == [NoReq EXCEPT !.kind = "upload", !.token = token,
                             !.title = title, !.file = file]
     IN  IF ~Truthy(file)
         THEN /\ last' = Answer([rq EXCEPT !.pc = "done"],
                                Resp(400, "No file uploaded"))
              /\ req' = req
         ELSE /\ BagCardinality(req) < MaxReq
              /\ nextPublicId + InFlight("upload") <= MaxImages
              /\ last' = NoLast
              /\ req' = Suspend([rq EXCEPT !.pc = "upload"])
  /\ UNCHANGED <<startupVars, envVars, timeVars, images, dbUsers, dbImages,
                 nextOid, remote, nextPublicId, served, issued>>

\* new Image({...}) / the in-memory newImage literal
NewImage(title, publicId) ==
  [_id |-> IF mongoConnected THEN "oid" \o ToString(nextOid)
           ELSE ToString(clock),
   title |-> IF Truthy(title) THEN title ELSE "Untitled",
   cloudinaryId |-> publicId,
   createdAt |-> clock]

\* the handler from the result of cloudinary.uploader.upload on; in
\* persistent mode newImage.save() runs in the same step.  uploaded, saved:
\* the call did not throw
UploadResume(h, uploaded, saved) ==
  /\ Turn
  /\ h.pc = "upload"
  /\ LET rq == [h EXCEPT !.pc = "done", !.backend = Backend]
         publicId == "img" \o ToString(nextPublicId)
         newImage == NewImage(h.title, publicId)
         failed == Resp(500, "Error uploading image")
         ok == [Resp(200, "") EXCEPT !.body = <<newImage>>]
     IN    IF ~uploaded
           THEN /\ last' = Answer([h EXCEPT !.pc = "done"], failed)
                /\ UNCHANGED <<images, dbImages, nextOid, remote, nextPublicId,
                               served>>
           ELSE /\ remote' = remote \cup {publicId}
                /\ Serve
                /\ nextPublicId' = nextPublicId + 1
                /\ IF mongoConnected
                   THEN /\ images' = images
                        /\ IF saved
                           THEN /\ dbImages' = dbImages \cup {newImage}
                                /\ nextOid' = nextOid + 1
                                /\ last' = Answer(rq, ok)
                           ELSE /\ UNCHANGED <<dbImages, nextOid>>
                                /\ last' = Answer(rq, failed)
                   ELSE /\ images' = Append(images, newImage)
                        /\ UNCHANGED <<dbImages, nextOid>>
                        /\ last' = Answer(rq, ok)
  /\ req' = Resume(h)
  /\ UNCHANGED <<startupVars, envVars, timeVars, dbUsers, issued>>

\* ------------------------------------------------------- PUT /api/images/:id
\* Image.findByIdAndUpdate(id, { title }, { new: true }): an undefined title
\* is dropped from the update or written as null, depending on the driver
MongoTitles(old, title) == IF title = undefined THEN {old, undefined} ELSE {title}

\* the whole handler behind authenticateToken and isAdmin
UpdateImage(token, id, title) ==
  /\ Turn
  /\ Gate(token) = Next0
  /\ LET rq == [NoReq EXCEPT !.pc = "done", !.kind = "update", !.token = token,
                             !.title = title, !.id = id, !.backend = Backend]
         notFound == Resp(404, "Image not found")
         imageIndex == FindIndex(images, id)
     IN  IF mongoConnected
         THEN /\ images' = images
              /\ IF ~\E d \in dbImages : d._id = id
                 THEN last' = Answer(rq, notFound) /\ dbImages' = dbImages
                 ELSE \E d \in {e \in dbImages : e._id = id} :
                      \E t \in MongoTitles(d.title, title) :
                        LET updatedImage == [d EXCEPT !.title = t]
                        IN  /\ dbImages' = (dbImages \ {d}) \cup {updatedImage}
                            /\ last' = Answer(rq, [Resp(200, "") EXCEPT
                                                    !.body = <<updatedImage>>])
         ELSE /\ dbImages' = dbImages
              /\ IF imageIndex = 0
                 THEN last' = Answer(rq, notFound) /\ images' = images
                 ELSE /\ images' = [images EXCEPT ![imageIndex].title = title]
                      /\ last' = Answer(rq, [Resp(200, "") EXCEPT
                                              !.body = <<images'[imageIndex]>>])
  /\ Serve
  /\ UNCHANGED <<startupVars, envVars, timeVars, dbUsers, nextOid, remote,
                 nextPublicId, req, issued>>

\* ---------------------------------------------------- DELETE /api/images/:id
\* authenticateToken, isAdmin, and the handler up to
\* await cloudinary.uploader.destroy
DeleteStart(token, id) ==
  /\ Turn
  /\ Gate(token) = Next0
  /\ LET rq == [NoReq EXCEPT !.kind = "delete", !.token = token, !.id = id,
                             !.backend = Backend]
         notFound == Answer([rq EXCEPT !.pc = "done"], Resp(404, "Image not found"))
         imageIndex == FindIndex(images, id)
     IN  IF mongoConnected
         THEN IF ~\E d \in dbImages : d._id = id
              THEN last' = notFound /\ req' = req
              ELSE \E image \in {e \in dbImages : e._id = id} :
                     /\ BagCardinality(req) < MaxReq
                     /\ Truthy(image.cloudinaryId)
                     /\ last' = NoLast
                     /\ req' = Suspend([rq EXCEPT !.pc = "destroy",
                                         !.cloudinaryId = image.cloudinaryId])
         ELSE IF imageIndex = 0
              THEN last' = notFound /\ req' = req
              ELSE LET image == images[imageIndex]
                   IN  /\ BagCardinality(req) < MaxReq
                       /\ Truthy(image.cloudinaryId)
                       /\ last' = NoLast
                       /\ req' = Suspend([rq EXCEPT !.pc = "destroy",
                                           !.imageIndex = imageIndex,
                                           !.cloudinaryId = image.cloudinaryId])
  /\ Serve
  /\ UNCHANGED <<startupVars, envVars, timeVars, images, dbUsers, dbImages,
                 nextOid, remote, nextPublicId, issued>>

\* the handler from the result of cloudinary.uploader.destroy on: in
\* in-memory mode up to the response, in persistent mode up to
\* await Image.findByIdAndDelete
DeleteResume(h, destroyed) ==
  /\ Turn
  /\ h.pc = "destroy"
  /\ LET rq == [h EXCEPT !.pc = "done"]
     IN    IF ~destroyed
           THEN /\ last' = Answer(rq, Resp(500, "Error deleting image"))
                /\ req' = Resume(h)
                /\ UNCHANGED <<images, remote>>
           ELSE /\ remote' = remote \ {h.cloudinaryId}
                /\ IF h.backend = "mongo"
                   THEN /\ req' = Suspend([h EXCEPT !.pc = "remove"]) (-) SetToBag({h})
                        /\ last' = NoLast
                        /\ images' = images
                   ELSE /\ images' = Splice(images, h.imageIndex)
                        /\ req' = Resume(h)
                        /\ last' = Answer(rq, Resp(200, "Image deleted successfully"))
  /\ UNCHANGED <<startupVars, envVars, timeVars, dbUsers, dbImages, nextOid,
                 nextPublicId, served, issued>>

\* await Image.findByIdAndDelete(id), then the response or the catch
DeleteRemove(h, removed) ==
  /\ Turn
  /\ h.pc = "remove"
  /\ LET rq == [h EXCEPT !.pc = "done"]
     IN    IF removed
           THEN /\ dbImages' = {d \in dbImages : d._id /= h.id}
                /\ last' = Answer(rq, Resp(200, "Image deleted successfully"))
           ELSE /\ dbImages' = dbImages
                /\ last' = Answer(rq, Resp(500, "Error deleting image"))
  /\ req' = Resume(h)
  /\ UNCHANGED <<startupVars, envVars, timeVars, images, dbUsers, nextOid,
                 remote, nextPublicId, served, issued>>

\* ------------------------------------------------------------- environment
\* the wall clock moves on by a millisecond
Tick ==
  /\ Turn
  /\ ticks < MaxTicks
  /\ clock' = clock + 1
  /\ ticks' = ticks + 1
  /\ last' = NoLast
  /\ UNCHANGED <<startupVars, envVars, images, dbUsers, dbImages, nextOid,
                 remote, nextPublicId, req, served, issued>>

\* the process is started again: module-level state is initialised anew, the
\* database, Cloudinary and the tokens held by clients stay
Restart ==
  /\ Turn
  /\ restarts < MaxRestarts
  /\ restarts' = restarts + 1
  /\ connection' = "connecting"
  /\ mongoConnected' = FALSE
  /\ users' = <<>>
  /\ images' = <<>>
  /\ seed' = SeedIdle
  /\ memSeed' = "idle"
  /\ req' = EmptyBag
  /\ last' = NoLast
  /\ served' = {}
  /\ UNCHANGED <<jwtSecret, timeVars, dbUsers, dbImages, nextOid, remote,
                 nextPublicId, issued>>

\* res.json / res.status(...).json of the callback that just ran returns, and
\* the event loop goes on to its next callback
NextTurn ==
  /\ last /= NoLast
  /\ last' = NoLast
  /\ UNCHANGED <<startupVars, envVars, timeVars, images, dbUsers, dbImages,
                 nextOid, remote, nextPublicId, req, served, issued>>

\* the startup of one process
Startup ==
  \/ ConnectionOpen
  \/ ConnectThen
  \/ ConnectCatch
  \/ \E s \in SeedRuns : SeedFindOne(s)
  \/ \E s \in SeedRuns : SeedCreate(s)
  \/ InitializeInMemoryUsers

\* one process, from its start on, and its clients
Next ==
  \/ Startup
  \/ \E e \in Emails, p \in Passwords : Login(e, p)
  \/ ListImages
  \/ \E k \in AdminRoutes, t \in Presentable : Reject(k, t)
  \/ \E t \in Passing, ti \in Titles, f \in Files : UploadStart(t, ti, f)
  \/ \E h \in Suspended, uploaded \in BOOLEAN, saved \in BOOLEAN :
       UploadResume(h, uploaded, saved)
  \/ \E t \in Passing, id \in Ids, ti \in Titles : UpdateImage(t, id, ti)
  \/ \E t \in Passing, id \in Ids : DeleteStart(t, id)
  \/ \E h \in Suspended, destroyed \in BOOLEAN : DeleteResume(h, destroyed)
  \/ \E h \in Suspended, removed \in BOOLEAN : DeleteRemove(h, removed)
  \/ Tick
  \/ NextTurn

Spec == Init /\ [][Next]_vars

\* the admin-only routes under every token, with a client that logs in with
\* the seeded passwords and sends a title with every upload and update
NextGate ==
  \/ Startup
  \/ Login(AdminEmail, AdminPassword)
  \/ Login(UserEmail, UserPassword)
  \/ \E k \in AdminRoutes, t \in Presentable : Reject(k, t)
  \/ \E t \in Passing, f \in Files : UploadStart(t, "Sunset", f)
  \/ \E h \in Suspended, uploaded \in BOOLEAN : UploadResume(h, uploaded, TRUE)
  \/ \E t \in Passing, id \in Ids : UpdateImage(t, id, "Dusk")
  \/ \E t \in Passing, id \in Ids : DeleteStart(t, id)
  \/ \E h \in Suspended, destroyed \in BOOLEAN : DeleteResume(h, destroyed)
  \/ \E h \in Suspended, removed \in BOOLEAN : DeleteRemove(h, removed)
  \/ NextTurn

SpecGate == Init /\ [][NextGate]_vars

\* the gallery of an admin who is logged in: uploads, title updates, deletes
\* and listings that go through, at any pace and overlapping
NextListing ==
  \/ Startup
  \/ Login(AdminEmail, AdminPassword)
  \/ ListImages
  \/ \E t \in Passing : UploadStart(t, "Sunset", "sunset.png")
  \/ \E h \in Suspended : UploadResume(h, TRUE, TRUE)
  \/ \E t \in Passing, id \in Ids : UpdateImage(t, id, "Dusk")
  \/ \E t \in Passing, id \in Ids : DeleteStart(t, id)
  \/ \E h \in Suspended : DeleteResume(h, TRUE)
  \/ \E h \in Suspended : DeleteRemove(h, TRUE)
  \/ Tick
  \/ NextTurn

SpecListing == Init /\ [][NextListing]_vars

\* the startups of a process that is started again and again on one database
NextStarts == Startup \/ Restart

SpecStarts == Init /\ [][NextStarts]_vars

\* ================================================================== claims
Store == IF mongoConnected THEN dbImages
         ELSE {images[i] : i \in 1..Len(images)}
Answered(kind) == last /= NoLast /\ last.rq.kind = kind
Times(x, q) == Cardinality({i \in 1..Len(q) : q[i] = x})

\* ---- C1
\* what the claim says of a token, in its own words
SecretInForce == IF jwtSecret = undefined \/ jwtSecret = ""
                 THEN "your_jwt_secret" ELSE jwtSecret
GoodToken(t) ==
  t.fmt = "jwt" /\ t.key = SecretInForce /\ (clock \div 1000) < t.exp
Refused(t) == t.fmt = "none" \/ ~GoodToken(t) \/ ~t.payload.isAdmin
RefusalStatus(t) == IF t.fmt = "none" THEN 401 ELSE 403
RefusalMessage(t) ==
  IF t.fmt = "none" THEN "Access denied"
  ELSE IF ~GoodToken(t) THEN "Invalid token" ELSE "Admin access required"

\* C1: on upload, update and delete, a request without a token is answered
\* 401 "Access denied", one with an invalid or expired token 403 "Invalid
\* token", one with a valid token of a non-admin 403 "Admin access required"
\* (three different answers); the step that answers leaves the image stores,
\* Cloudinary and the suspended handlers as they were, and no handler is ever
\* started for such a request.
GateRefuses ==
  [][ /\ ( /\ last' /= NoLast
           /\ last'.rq.kind \in {"upload", "update", "delete"}
           /\ Refused(last'.rq.token) )
         => /\ last'.rs.status = RefusalStatus(last'.rq.token)
            /\ last'.rs.message = RefusalMessage(last'.rq.token)
            /\ images' = images /\ dbImages' = dbImages /\ remote' = remote
            /\ req' = req
      /\ \A h \in BagToSet(req') :
           (h.pc \in {"upload", "destroy"} /\ CopiesIn(h, req') > CopiesIn(h, req))
             => ~Refused(h.token)
    ]_vars

\* C1 witness: a logged-in non-admin was refused while the gallery held an image
NonAdminRefused ==
  /\ Answered("delete")
  /\ last.rq.token \in issued
  /\ last.rs.message = "Admin access required"
  /\ Len(images) > 0

\* ---- C2
\* C2: all requests one process handles are served from the same backend.
OneBackend == Cardinality(served) <= 1

\* ---- C3
IdsDiffer(s) == \A i, j \in 1..Len(s) : i /= j => s[i]._id /= s[j]._id

\* C3: in in-memory mode (ids pairwise different), the step that answers a
\* delete of id X with success leaves no record with id X, makes the store one
\* record shorter and keeps every other record as it was.
DeleteRemovesThatRecord ==
  [][ ( /\ last' /= NoLast
        /\ last'.rq.kind = "delete"
        /\ last'.rq.backend = "memory"
        /\ last'.rs.status = 200
        /\ IdsDiffer(images) )
      => /\ \A i \in 1..Len(images') : images'[i]._id /= last'.rq.id
         /\ Len(images') = Len(images) - 1
         /\ \A i \in 1..Len(images) :
              images[i]._id /= last'.rq.id
                => \E j \in 1..Len(images') : images'[j] = images[i]
    ]_vars

\* ---- C4
\* C4: every record of the store names an object Cloudinary holds, and no two
\* records name the same object.
RemoteObjectsExist ==
  /\ \A x \in Store : x.cloudinaryId \in remote
  /\ \A i, j \in 1..Len(images) :
       i /= j => images[i].cloudinaryId /= images[j].cloudinaryId
  /\ \A x, y \in dbImages : x /= y => x.cloudinaryId /= y.cloudinaryId

\* ---- C5
Admins == {u \in dbUsers : u.email = "admin@gmail.com"}

\* C5: the User collection never holds two admin@gmail.com accounts, the
\* account is an admin, and once a seeding run of a process has finished the
\* collection holds exactly one, however the runs of this and of earlier
\* process starts interleaved.
SeedingIdempotent ==
  /\ Cardinality(Admins) <= 1
  /\ \A u \in Admins : u.isAdmin
  /\ (\E s \in SeedRuns : seed[s] = "done") => Cardinality(Admins) = 1

\* C5 witness: the second start of the process has finished both its runs, the
\* second of them after it had found no admin
SeededAgain ==
  /\ restarts >= 1
  /\ \A s \in SeedRuns : seed[s] = "done"
  /\ Cardinality(Admins) = 1
  /\ nextOid = 2

\* ---- C6
\* C6: a login with the email of a stored account and its password is
\* answered with a token, which the auth gate accepts and which carries the
\* email and the admin flag of the account, whether JWT_SECRET is set or not.
LoginTokenVerifies ==
  ( /\ Answered("login")
    /\ Found(last.rq.user)
    /\ last.rq.user.password = [bcrypt |-> last.rq.password] )
  => /\ last.rs.status = 200
     /\ GoodToken(last.rs.token)
     /\ last.rs.token.payload.email = last.rq.user.email
     /\ last.rs.token.payload.isAdmin = last.rq.user.isAdmin

\* ---- C7
\* C7: a login that fails, for an unknown email or for a password that is not
\* the stored one (an absent password too), is answered 401 "Invalid
\* credentials".
InvalidLoginsLookAlike ==
  ( /\ Answered("login")
    /\ \/ ~Found(last.rq.user)
       \/ last.rq.user.password /= [bcrypt |-> last.rq.password] )
  => /\ last.rs.status = 401
     /\ last.rs.message = "Invalid credentials"

\* ---- C8
\* C8: the step that answers a listing returns every record of the store once
\* and nothing else, newest first (createdAt never grows along the list), and
\* loses no record of the store.
ListingNewestFirst ==
  [][ (last' /= NoLast /\ last'.rq.kind = "list")
      => LET body == last'.rs.body
             before == IF mongoConnected THEN dbImages
                       ELSE {images[i] : i \in 1..Len(images)}
         IN  /\ last'.rs.status = 200
             /\ \A i \in 1..(Len(body) - 1) :
                  body[i].createdAt >= body[i + 1].createdAt
             /\ {body[i] : i \in 1..Len(body)} = before
             /\ IF mongoConnected
                THEN Len(body) = Cardinality(dbImages) /\ dbImages' = dbImages
                ELSE /\ Len(body) = Len(images)
                     /\ \A x \in before : Times(x, body) = Times(x, images)
                     /\ \A x \in before : Times(x, images') = Times(x, images)
    ]_vars

\* C8 witness: a listing of two records of different age, given after the
\* newer one was appended behind the older one
ListedTwo ==
  /\ Answered("list")
  /\ last.rq.backend = "memory"
  /\ Len(last.rs.body) = 2
  /\ last.rs.body[1].createdAt > last.rs.body[2].createdAt
  /\ last.rs.body[1].cloudinaryId = "img2"

\* ---- C9
\* C9: no two records of an image store have the same id.
IdsUnique ==
  /\ IdsDiffer(images)
  /\ \A x, y \in dbImages : x /= y => x._id /= y._id

\* ---- C10
\* C10: the title of every record is a non-empty string.
TitlesNonEmpty ==
  /\ \A i \in 1..Len(images) : images[i].title \notin {undefined, ""}
  /\ \A x \in dbImages : x.title \notin {undefined, ""}

====
